---- MODULE Spec2Model ----
(***************************************************************************)
(* Model of the Artillery MCP server's process-execution engine:          *)
(* ArtilleryWrapper (src/src/lib/artillery.ts) and the run_test_from_file *)
(* and run_test_inline tools that call it.                                 *)
(*                                                                         *)
(* A JavaScript string is a sequence of one-character strings, so that    *)
(* String.prototype.startsWith, path.resolve and path.join are computed   *)
(* character by character, as the code computes them.                      *)
(***************************************************************************)
EXTENDS Integers, Sequences, FiniteSets, TLC

VARIABLES
    calls,   \* per tool call: request, position in the handler, runner, result
    tmp,     \* <workDir>/temp: timestamp of a config-<ts>.yml -> call that wrote it (0: absent)
    now,     \* Date.now()
    fs,      \* the paths fs.access finds, besides the temp files
    san,     \* the last direct application of sanitizePath (SpecSanitize)
    config,  \* the ServerConfig fields that differ between servers: allowQuick
    probe    \* the inputs and the result of a pure function applied directly

vars == <<calls, tmp, now, fs, san, config, probe>>

(***************************************************************************)
(* Bounds                                                                  *)
(***************************************************************************)
MaxClock == 2
MaxChunks == 2

Calls == {1, 2}

(***************************************************************************)
(* ServerConfig                                                            *)
(***************************************************************************)
maxOutputMb == 1
config_workDir == <<"/", "w">>
ProcessCwd == <<"/">>

maxOutputBytes == maxOutputMb * 1024 * 1024

(***************************************************************************)
(* Strings and paths                                                       *)
(***************************************************************************)
startsWith(s, p) == Len(p) <= Len(s) /\ SubSeq(s, 1, Len(p)) = p

isAbsolute(s) == Len(s) > 0 /\ s[1] = "/"

RECURSIVE SplitPath(_, _, _)
SplitPath(s, cur, acc) ==
    IF s = <<>> THEN (IF cur = <<>> THEN acc ELSE Append(acc, cur))
    ELSE IF Head(s) = "/"
         THEN SplitPath(Tail(s), <<>>, IF cur = <<>> THEN acc ELSE Append(acc, cur))
         ELSE SplitPath(Tail(s), Append(cur, Head(s)), acc)

Segments(s) == SplitPath(s, <<>>, <<>>)

\* normalizeString of an absolute path: "." is dropped, ".." removes the
\* segment before it and stays at the root.
RECURSIVE NormalizeSegs(_, _)
NormalizeSegs(segs, out) ==
    IF segs = <<>> THEN out
    ELSE IF Head(segs) = <<".">> THEN NormalizeSegs(Tail(segs), out)
    ELSE IF Head(segs) = <<".", ".">>
         THEN NormalizeSegs(Tail(segs),
                            IF out = <<>> THEN out ELSE SubSeq(out, 1, Len(out) - 1))
         ELSE NormalizeSegs(Tail(segs), Append(out, Head(segs)))

RECURSIVE JoinSegs(_)
JoinSegs(segs) ==
    IF segs = <<>> THEN <<>> ELSE <<"/">> \o Head(segs) \o JoinSegs(Tail(segs))

RenderAbs(segs) == IF segs = <<>> THEN <<"/">> ELSE JoinSegs(segs)

\* path.resolve(a, b): right to left until an absolute path is built, the
\* process's working directory last; empty arguments are skipped.
pathResolve(a, b) ==
    LET joined == IF isAbsolute(b) THEN b
                  ELSE IF isAbsolute(a) THEN a \o <<"/">> \o b
                  ELSE ProcessCwd \o <<"/">> \o a \o <<"/">> \o b
    IN RenderAbs(NormalizeSegs(Segments(joined), <<>>))

\* path.join(a, b) of an absolute a
pathJoin(a, b) == RenderAbs(NormalizeSegs(Segments(a \o <<"/">> \o b), <<>>))

Digit(n) == <<"0", "1", "2", "3", "4", "5", "6", "7", "8", "9">>[n + 1]

RECURSIVE Decimal(_)
Decimal(n) == IF n < 10 THEN <<Digit(n)>> ELSE Decimal(n \div 10) \o <<Digit(n % 10)>>

\* `config-${Date.now()}.yml` under path.join(workDir, 'temp')
tempFileName(ts) ==
    pathJoin(pathJoin(config_workDir, <<"t", "e", "m", "p">>),
             <<"c", "o", "n", "f", "i", "g", "-">> \o Decimal(ts) \o <<".", "y", "m", "l">>)

\* p is dir or a descendant of dir, directory by directory
IsWithin(p, dir) ==
    LET ps == Segments(p)
        ds == Segments(dir)
    IN Len(ds) <= Len(ps) /\ SubSeq(ps, 1, Len(ds)) = ds

(***************************************************************************)
(* sanitizePath                                                            *)
(***************************************************************************)
sanitizePath(filePath, cwd, files) ==
    LET workDir == IF cwd # <<>> THEN cwd ELSE config_workDir
        resolvedPath == pathResolve(workDir, filePath)
    IN IF ~startsWith(resolvedPath, pathResolve(workDir, <<>>))
       THEN [ok |-> FALSE, error |-> "outside allowed working directory", path |-> resolvedPath]
       ELSE IF resolvedPath \notin files
            THEN [ok |-> FALSE, error |-> "File not found", path |-> resolvedPath]
            ELSE [ok |-> TRUE, error |-> "none", path |-> resolvedPath]

(***************************************************************************)
(* runCommand: the promise, the child process and its handlers             *)
(***************************************************************************)
NoValue == [exitCode |-> 0, stdout |-> <<>>, stderr |-> <<>>]
Pending == [state |-> "pending", value |-> NoValue, error |-> "none"]

\* mutant: a later resolve replaces an earlier settlement
resolveOverwrites(p, v) == [state |-> "resolved", value |-> v, error |-> "none"]

\* resolve and reject of a promise: the first settlement stands
resolve(p, v) ==
    IF p.state = "pending" THEN [state |-> "resolved", value |-> v, error |-> "none"] ELSE p
reject(p, e) ==
    IF p.state = "pending" THEN [state |-> "rejected", value |-> NoValue, error |-> e] ELSE p

\* string length of the concatenation of the chunks
RECURSIVE StrLen(_)
StrLen(chunks) == IF chunks = <<>> THEN 0 ELSE Head(chunks).len + StrLen(Tail(chunks))

NoEvent == [hasCode |-> FALSE, code |-> 0, signal |-> "none"]

NoRunner ==
    [child |-> "none", timer |-> "none", killed |-> FALSE, sigkill |-> 0,
     errored |-> FALSE, closeEv |-> NoEvent, configPath |-> <<>>, cwd |-> <<>>,
     stdout |-> <<>>, stderr |-> <<>>, promise |-> Pending]

\* mutant: the child is spawned without a timeout timer
spawnChildNoTimer(configPath, cwd) ==
    [NoRunner EXCEPT !.child = "running", !.configPath = configPath, !.cwd = cwd]

\* new Promise(...): spawn, setTimeout, handlers registered
spawnChild(configPath, cwd) ==
    [NoRunner EXCEPT !.child = "running", !.timer = "armed",
                     !.configPath = configPath, !.cwd = cwd]

clearTimeout(t) == IF t = "armed" THEN "cleared" ELSE t

\* mutant: the timeout only kills the child and leaves the settlement to 'close'
onTimeoutKillOnly(r) == [r EXCEPT !.timer = "fired", !.sigkill = @ + 1]

\* the setTimeout callback
onTimeout(r) ==
    [r EXCEPT !.timer = "fired",
              !.killed = TRUE,
              !.sigkill = @ + 1,
              !.promise = reject(@, "Command timed out")]

\* child.stdout 'data'
onStdoutData(r, chunk) ==
    IF StrLen(r.stdout) < maxOutputMb * 1024 * 1024
    THEN [r EXCEPT !.stdout = Append(@, chunk)]
    ELSE r

\* mutant: one cap for both streams together
onStderrDataSharedCap(r, chunk) ==
    IF StrLen(r.stdout) + StrLen(r.stderr) < maxOutputMb * 1024 * 1024
    THEN [r EXCEPT !.stderr = Append(@, chunk)]
    ELSE r

\* child.stderr 'data'
onStderrData(r, chunk) ==
    IF StrLen(r.stderr) < maxOutputMb * 1024 * 1024
    THEN [r EXCEPT !.stderr = Append(@, chunk)]
    ELSE r

\* the events 'close' can carry: an exit code, or no code and the signal
\* that ended the process
CloseEvents ==
    {[hasCode |-> TRUE, code |-> 0, signal |-> "none"],
     [hasCode |-> TRUE, code |-> 1, signal |-> "none"],
     [hasCode |-> FALSE, code |-> 0, signal |-> "SIGTERM"],
     [hasCode |-> FALSE, code |-> 0, signal |-> "SIGKILL"]}

\* code || 0
codeOrZero(ev) == IF ev.hasCode /\ ev.code # 0 THEN ev.code ELSE 0

\* mutant: a nonzero exit code fails the call
onCloseRejectNonzero(r, ev) ==
    LET r1 == [r EXCEPT !.timer = clearTimeout(@), !.child = "closed", !.closeEv = ev]
    IN IF r.killed THEN r1
       ELSE IF ev.hasCode /\ ev.code # 0
            THEN [r1 EXCEPT !.promise = reject(@, "exit code")]
            ELSE [r1 EXCEPT !.promise =
                      resolve(@, [exitCode |-> 0, stdout |-> r.stdout, stderr |-> r.stderr])]

\* child 'close'
onClose(r, ev) ==
    LET r1 == [r EXCEPT !.timer = clearTimeout(@), !.child = "closed",
                        !.closeEv = ev]
    IN IF ~r.killed
       THEN [r1 EXCEPT !.promise =
                 resolve(@, [exitCode |-> codeOrZero(ev), stdout |-> r.stdout, stderr |-> r.stderr])]
       ELSE r1

\* mutant: 'error' leaves the timer running
onErrorKeepsTimer(r) ==
    [r EXCEPT !.errored = TRUE, !.promise = reject(@, "spawn error")]

\* child 'error'
onError(r) ==
    [r EXCEPT !.timer = clearTimeout(@), !.errored = TRUE,
              !.promise = reject(@, "spawn error")]

(***************************************************************************)
(* JSON values, parseResults and parseSummary                              *)
(*                                                                         *)
(* A JSON value carries its type; an object is a function from its keys.  *)
(* Numbers are passed through unchanged by the code, so integers stand for *)
(* every number.                                                           *)
(***************************************************************************)
JUndef == [t |-> "undefined"]
JNull == [t |-> "null"]
JNum(n) == [t |-> "num", n |-> n]
JStr(x) == [t |-> "str", s |-> x]
JArr == [t |-> "arr"]
JObj(f) == [t |-> "obj", f |-> f]
NoFields == [k \in {} |-> JUndef]

\* a key of an object under construction, left out when the value is undefined
Opt(k, v) == IF v.t = "undefined" THEN NoFields ELSE (k :> v)

\* x[k] of a value that is neither null nor undefined
jsGet(x, k) == IF x.t = "obj" /\ k \in DOMAIN x.f THEN x.f[k] ELSE JUndef

jsFalsy(x) ==
    \/ x.t \in {"undefined", "null"}
    \/ (x.t = "num" /\ x.n = 0)
    \/ (x.t = "str" /\ x.s = "")

\* x || d
jsOr(x, d) == IF jsFalsy(x) THEN d ELSE x

\* x?.k
jsOptGet(x, k) == IF x.t \in {"undefined", "null"} THEN JUndef ELSE jsGet(x, k)

\* fs.readFile and JSON.parse of a results file: unreadable, not JSON, or a value
parseResults(file) ==
    IF file.kind = "json"
    THEN [ok |-> TRUE, value |-> file.doc, error |-> "none"]
    ELSE [ok |-> FALSE, value |-> JUndef, error |-> "Failed to parse results file"]

NoSummary == [defined |-> FALSE]

\* the field extraction of parseSummary, on a value that is not null
extractSummary(results) ==
    LET aggregate == jsOr(jsGet(results, "aggregate"), JObj(NoFields))
        counters == jsOr(jsGet(aggregate, "counters"), JObj(NoFields))
        rates == jsOr(jsGet(aggregate, "rates"), JObj(NoFields))
        summaries == jsOr(jsGet(aggregate, "summaries"), JObj(NoFields))
    IN [defined |-> TRUE,
        requestsTotal |-> jsOr(jsGet(counters, "http.requests"), JNum(0)),
        rpsAvg |-> jsOr(jsGet(rates, "http.request_rate"), JNum(0)),
        p50 |-> jsOr(jsOptGet(jsGet(summaries, "http.response_time"), "p50"), JNum(0)),
        p95 |-> jsOr(jsOptGet(jsGet(summaries, "http.response_time"), "p95"), JNum(0)),
        p99 |-> jsOr(jsOptGet(jsGet(summaries, "http.response_time"), "p99"), JNum(0)),
        errors |-> jsOr(jsGet(counters, "http.errors"), JObj(NoFields))]

\* parseSummary: parseResults may throw, and results.aggregate throws a
\* TypeError when the file holds null
parseSummary(file) ==
    LET r == parseResults(file)
    IN IF ~r.ok THEN [ok |-> FALSE, error |-> r.error, summary |-> NoSummary]
       ELSE IF r.value.t = "null"
            THEN [ok |-> FALSE, error |-> "Cannot read properties of null",
                  summary |-> NoSummary]
            ELSE [ok |-> TRUE, error |-> "none", summary |-> extractSummary(r.value)]

\* ParseResultsTool.call after parseResults: the same extraction, then
\* results.scenarios || [] and its map
toolSummary(results) ==
    LET aggregate == jsOr(jsGet(results, "aggregate"), JObj(NoFields))
        counters == jsOr(jsGet(aggregate, "counters"), JObj(NoFields))
        rates == jsOr(jsGet(aggregate, "rates"), JObj(NoFields))
        summaries == jsOr(jsGet(aggregate, "summaries"), JObj(NoFields))
    IN [defined |-> TRUE,
        requestsTotal |-> jsOr(jsGet(counters, "http.requests"), JNum(0)),
        rpsAvg |-> jsOr(jsGet(rates, "http.request_rate"), JNum(0)),
        p50 |-> jsOr(jsOptGet(jsGet(summaries, "http.response_time"), "p50"), JNum(0)),
        p95 |-> jsOr(jsOptGet(jsGet(summaries, "http.response_time"), "p95"), JNum(0)),
        p99 |-> jsOr(jsOptGet(jsGet(summaries, "http.response_time"), "p99"), JNum(0)),
        errors |-> jsOr(jsGet(counters, "http.errors"), JObj(NoFields))]

\* ParseResultsTool.call: what it throws ("none": nothing) and the summary
parseResultsTool(jsonPath, file) ==
    IF ~isAbsolute(jsonPath)
    THEN [thrown |-> "Path must be absolute", summary |-> NoSummary]
    ELSE LET r == parseResults(file)
         IN IF ~r.ok THEN [thrown |-> r.error, summary |-> NoSummary]
            ELSE IF r.value.t = "null"
                 THEN [thrown |-> "Cannot read properties of null", summary |-> NoSummary]
                 ELSE IF jsOr(jsGet(r.value, "scenarios"), JArr).t # "arr"
                      THEN [thrown |-> "scenarios.map is not a function", summary |-> NoSummary]
                      ELSE [thrown |-> "none", summary |-> toolSummary(r.value)]

\* parseInt of a string of decimal digits, read left to right
RECURSIVE parseDigits(_, _)
parseDigits(s, acc) ==
    IF s = <<>> THEN acc
    ELSE parseDigits(Tail(s), acc * 10 + (CHOOSE n \in 0..9 : Digit(n) = Head(s)))

isDigit(ch) == \E n \in 0..9 : Digit(n) = ch

\* the length of the run of digits (\d+, greedy) at the start of s
RECURSIVE digitRun(_)
digitRun(s) == IF s # <<>> /\ isDigit(Head(s)) THEN 1 + digitRun(Tail(s)) ELSE 0

\* duration.match(/^(\d+)([smhd])?$/): groups 1 and 2 (<<>>: undefined)
matchDuration(duration) ==
    LET n == digitRun(duration)
    IN IF n >= 1 /\ Len(duration) = n
       THEN [matched |-> TRUE, value |-> SubSeq(duration, 1, n), unit |-> <<>>]
       ELSE IF n >= 1 /\ Len(duration) = n + 1 /\ duration[n + 1] \in {"s", "m", "h", "d"}
            THEN [matched |-> TRUE, value |-> SubSeq(duration, 1, n), unit |-> <<duration[n + 1]>>]
            ELSE [matched |-> FALSE, value |-> <<>>, unit |-> <<>>]

unitSecondsAllOne(value, unit) == value

\* the switch of parseDuration
unitSeconds(value, unit) ==
    CASE unit = <<"s">> -> value
      [] unit = <<"m">> -> value * 60
      [] unit = <<"h">> -> value * 3600
      [] unit = <<"d">> -> value * 86400
      [] OTHER -> value

parseDuration(duration) ==
    LET match == matchDuration(duration)
    IN IF ~match.matched THEN 1
       ELSE unitSeconds(parseDigits(match.value, 0),
                        IF match.unit = <<>> THEN <<"s">> ELSE match.unit)

(***************************************************************************)
(* Start-up: detectBinary and loadConfiguration                            *)
(***************************************************************************)
\* an environment variable: undefined, or a string
Unset == [defined |-> FALSE, value |-> <<>>]
EnvStr(v) == [defined |-> TRUE, value |-> v]

\* JavaScript truthiness of process.env.X, and process.env.X || dflt
envTruthy(x) == x.defined /\ x.value # <<>>
envOr(x, dflt) == IF envTruthy(x) THEN x.value ELSE dflt

binaryNames == << <<"a", "r", "t", "i", "l", "l", "e", "r", "y">>,
                  <<"a", "r", "t", "i", "l", "l", "e", "r", "y", ".", "e", "x", "e">> >>

Thrown(msg) == [ok |-> FALSE, error |-> msg, value |-> <<>>]
Returned(v) == [ok |-> TRUE, error |-> "none", value |-> v]

\* the loop over binaryNames: the first name `which` resolves
RECURSIVE whichFirst(_, _)
whichFirst(names, onPath) ==
    IF names = <<>>
    THEN Thrown("Artillery binary not found in PATH")
    ELSE IF Head(names) \in onPath THEN Returned(Head(names))
         ELSE whichFirst(Tail(names), onPath)

detectBinaryFallsBack(envBin, accessible, onPath) ==
    IF envTruthy(envBin) /\ envBin.value \in accessible
    THEN Returned(envBin.value)
    ELSE whichFirst(binaryNames, onPath)

\* accessible: the paths fs.access accepts; onPath: the names `which` finds
detectBinary(envBin, accessible, onPath) ==
    IF envTruthy(envBin)
    THEN IF envBin.value \in accessible
         THEN Returned(envBin.value)
         ELSE Thrown("ARTILLERY_BIN specified but not accessible")
    ELSE whichFirst(binaryNames, onPath)

\* a JavaScript number: NaN or an integer
NaN == [nan |-> TRUE, v |-> 0]
Num(n) == [nan |-> FALSE, v |-> n]

\* < and > on numbers: every comparison with NaN is false
jsLess(a, b) == ~a.nan /\ ~b.nan /\ a.v < b.v
jsGreater(a, b) == ~a.nan /\ ~b.nan /\ a.v > b.v

radixDigit(ch) ==
    CASE isDigit(ch) -> CHOOSE n \in 0..9 : Digit(n) = ch
      [] ch \in {"a", "A"} -> 10
      [] ch \in {"b", "B"} -> 11
      [] ch \in {"c", "C"} -> 12
      [] ch \in {"d", "D"} -> 13
      [] ch \in {"e", "E"} -> 14
      [] ch \in {"f", "F"} -> 15
      [] OTHER -> 36

\* the white space and line terminators of JavaScript that a string of a
\* module can hold: blank, tab, line feed, carriage return, form feed,
\* vertical tab (U+000B), no-break space (U+00A0), U+1680 and U+FEFF. The
\* others (U+2000 to U+200A, U+2028, U+2029, U+202F, U+205F, U+3000) are
\* skipped by parseInt as well and are outside the alphabet of this model.
WhiteSpace == {" ", "\t", "\n", "\r", "\f", "", " ", " ", "﻿"}

\* the string without its leading white space
RECURSIVE skipSpaces(_)
skipSpaces(s) == IF s # <<>> /\ Head(s) \in WhiteSpace THEN skipSpaces(Tail(s)) ELSE s

\* the digits of the radix at the start of s: how many, and their value
RECURSIVE radixRun(_, _, _, _)
radixRun(s, radix, count, acc) ==
    IF s # <<>> /\ radixDigit(Head(s)) < radix
    THEN radixRun(Tail(s), radix, count + 1, acc * radix + radixDigit(Head(s)))
    ELSE [count |-> count, v |-> acc]

\* parseInt(string) without a radix: leading blanks, a sign, 0x, then digits
parseInt(str) ==
    LET s1 == skipSpaces(str)
        neg == s1 # <<>> /\ Head(s1) = "-"
        s2 == IF s1 # <<>> /\ Head(s1) \in {"-", "+"} THEN Tail(s1) ELSE s1
        hex == Len(s2) >= 2 /\ s2[1] = "0" /\ s2[2] \in {"x", "X"}
        s3 == IF hex THEN SubSeq(s2, 3, Len(s2)) ELSE s2
        run == radixRun(s3, IF hex THEN 16 ELSE 10, 0, 0)
    IN IF run.count = 0 THEN NaN
       ELSE Num(IF neg THEN 0 - run.v ELSE run.v)

DefaultTimeout == <<"1", "8", "0", "0", "0", "0", "0">>
DefaultMaxOutput == <<"1", "0">>

NoConfig == [artilleryBin |-> <<>>, workDir |-> <<>>, timeoutMs |-> NaN,
             maxOutputMb |-> NaN, allowQuick |-> FALSE]

timeoutOutOfRange(ms) ==
    jsLess(ms, Num(1000)) \/ jsGreater(ms, Num(7200000))

maxOutputOutOfRange(mb) ==
    jsLess(mb, Num(1)) \/ jsGreater(mb, Num(100))

\* loadConfiguration: env holds the five ARTILLERY_* variables
loadConfiguration(env, accessible, onPath) ==
    LET cfg == [artilleryBin |-> envOr(env.bin, <<>>),
                workDir |-> envOr(env.workDir, ProcessCwd),
                timeoutMs |-> parseInt(envOr(env.timeoutMs, DefaultTimeout)),
                maxOutputMb |-> parseInt(envOr(env.maxOutputMb, DefaultMaxOutput)),
                allowQuick |-> env.allowQuick = EnvStr(<<"t", "r", "u", "e">>)]
        detected == detectBinary(env.bin, accessible, onPath)
    IN IF ~detected.ok THEN [ok |-> FALSE, error |-> detected.error, config |-> NoConfig]
       ELSE IF cfg.workDir \notin accessible
            THEN [ok |-> FALSE, error |-> "ENOENT", config |-> NoConfig]
            ELSE IF timeoutOutOfRange(cfg.timeoutMs)
                 THEN [ok |-> FALSE,
                       error |-> "ARTILLERY_TIMEOUT_MS must be between 1 second and 2 hours",
                       config |-> NoConfig]
                 ELSE IF maxOutputOutOfRange(cfg.maxOutputMb)
                      THEN [ok |-> FALSE,
                            error |-> "ARTILLERY_MAX_OUTPUT_MB must be between 1 and 100",
                            config |-> NoConfig]
                      ELSE [ok |-> TRUE, error |-> "none",
                            config |-> [cfg EXCEPT !.artilleryBin = detected.value]]

(***************************************************************************)
(* quickTest: the gate and the argument list                               *)
(***************************************************************************)
\* options of quickTest; a missing rate or count is 0 and a missing duration
\* the empty string, which the code's truthiness tests treat alike
NoQuick == [target |-> <<>>, rate |-> 0, duration |-> <<>>, count |-> 0]

\* Math.ceil(a / b) for integers, NaN for 0 / 0
ceilDiv(a, b) == (a + b - 1) \div b

quickDisabledNever(cfg) == FALSE

\* if (!this.config.allowQuick) throw ...
quickDisabled(cfg) == ~cfg.allowQuick

\* `quick-test-${Date.now()}.json` under workDir
quickOutputFile(ts) ==
    pathJoin(config_workDir,
             <<"q", "u", "i", "c", "k", "-", "t", "e", "s", "t", "-">> \o Decimal(ts)
                 \o <<".", "j", "s", "o", "n">>)

\* mutant: the count is derived from rate and duration even when it is given
quickCountArgDerivedFirst(options) ==
    IF options.rate # 0 /\ options.duration # <<>>
    THEN Decimal(options.rate * parseDuration(options.duration))
    ELSE IF options.count # 0 THEN Decimal(options.count) ELSE <<"1", "0">>

\* the value after -c
quickCountArg(options) ==
    IF options.count # 0 THEN Decimal(options.count)
    ELSE IF options.rate # 0 /\ options.duration # <<>>
         THEN Decimal(options.rate * parseDuration(options.duration))
         ELSE <<"1", "0">>

\* mutant: the requests are not spread over the virtual users
quickPerVUArgNoSpread(options) ==
    IF options.rate # 0 /\ options.duration # <<>>
    THEN Decimal(options.rate * parseDuration(options.duration))
    ELSE IF options.duration # <<>>
         THEN Decimal(IF ceilDiv(parseDuration(options.duration), 2) > 1
                      THEN ceilDiv(parseDuration(options.duration), 2) ELSE 1)
         ELSE <<"3", "0">>

\* the value after -n
quickPerVUArg(options) ==
    LET durationSeconds == parseDuration(options.duration)
        vuCount == IF options.count # 0 THEN options.count
                   ELSE options.rate * durationSeconds
    IN IF options.rate # 0 /\ options.duration # <<>>
       THEN IF vuCount = 0 THEN <<"N", "a", "N">>
            ELSE Decimal(ceilDiv(options.rate * durationSeconds, vuCount))
       ELSE IF options.duration # <<>>
            THEN Decimal(IF ceilDiv(durationSeconds, 2) > 1
                         THEN ceilDiv(durationSeconds, 2) ELSE 1)
            ELSE <<"3", "0">>

\* mutant: -k for every target whose text before the first colon is https
quickInsecureByScheme(target) == startsWith(target, <<"h", "t", "t", "p", "s", ":">>)

\* options.target.startsWith('https://')
quickInsecure(target) == startsWith(target, <<"h", "t", "t", "p", "s", ":", "/", "/">>)

\* the args of `artillery quick`
quickArgs(options, ts) ==
    << <<"q", "u", "i", "c", "k">>, options.target, <<"-", "c">>, quickCountArg(options),
       <<"-", "n">>, quickPerVUArg(options), <<"-", "o">>, quickOutputFile(ts) >>
    \o (IF quickInsecure(options.target) THEN << <<"-", "k">> >> ELSE <<>>)

(***************************************************************************)
(* The tools and the wrapper's run operations, one record per call         *)
(***************************************************************************)
NoResult == [exitCode |-> 0, summary |-> NoSummary]
NoOutput == [status |-> "none", code |-> "none", exitCode |-> 0, message |-> "none"]

IdleCall ==
    [tool |-> "none", pc |-> "idle", path |-> <<>>, cwd |-> <<>>,
     validateOnly |-> FALSE, outputJson |-> FALSE, tempTs |-> -1, resolved |-> <<>>,
     spawns |-> 0, thrown |-> "none", result |-> NoResult, output |-> NoOutput,
     overwrote |-> 0, unlinkedOf |-> 0, summaryTries |-> 0, summaryError |-> "none",
     quick |-> NoQuick, args |-> <<>>, outputFile |-> <<>>, steps |-> <<>>,
     run |-> NoRunner]

errorCodeExecutionOnly(tool) == "EXECUTION_ERROR"

\* error.code in each tool's catch block
errorCode(tool) ==
    CASE tool = "parse_results" -> "PARSE_ERROR"
      [] tool = "list_capabilities" -> "CAPABILITIES_ERROR"
      [] OTHER -> "EXECUTION_ERROR"

\* the tool's catch block, and its { status: 'ok', data: result }
toolOutput(rec) ==
    IF rec.thrown # "none"
    THEN [status |-> "error", code |-> errorCode(rec.tool), exitCode |-> 0, message |-> rec.thrown]
    ELSE [status |-> "ok", code |-> "none", exitCode |-> rec.result.exitCode, message |-> "none"]

dryRunOutput(tool) ==
    [status |-> "ok", code |-> "none", exitCode |-> 0,
     message |-> IF tool = "run_test_inline"
                 THEN "Inline configuration validated successfully (dry-run)"
                 ELSE "Configuration validated successfully (dry-run)"]

\* mutant: validateOnly is passed on to the wrapper instead of short-circuiting
dryRunBranchNever(req) == FALSE

\* if (input.validateOnly) return ...
dryRunBranch(req) == req.validateOnly

\* <Tool>.call up to the wrapper's first await
toolCall(req) ==
    LET rec == [IdleCall EXCEPT !.tool = req.tool, !.path = req.path, !.cwd = req.cwd,
                                !.validateOnly = req.validateOnly,
                                !.outputJson = req.outputJson]
    IN CASE req.tool = "quick_test" -> [rec EXCEPT !.quick = req.quick, !.pc = "quick"]
         [] req.tool = "parse_results" -> [rec EXCEPT !.pc = "parse"]
         [] req.tool = "list_capabilities" -> [rec EXCEPT !.pc = "version"]
         [] OTHER ->
              IF dryRunBranch(req)
              THEN [rec EXCEPT !.pc = "done", !.output = dryRunOutput(req.tool)]
              ELSE [rec EXCEPT !.pc = IF req.tool = "run_test_inline" THEN "mkdir"
                                      ELSE "sanitize"]

\* the wrapper's operation returned or threw: runTestInline goes through its
\* finally block, runTestFromFile hands over to the tool
finishCall(rec) ==
    IF rec.tool = "run_test_inline"
    THEN [rec EXCEPT !.pc = "cleanup"]
    ELSE [rec EXCEPT !.pc = "done", !.output = toolOutput(rec)]

\* mutant: the temp file is removed after a successful run only (no finally)
unlinkTempOnSuccess(rec, t) == IF rec.thrown = "none" THEN [t EXCEPT ![rec.tempTs] = 0] ELSE t

\* fs.unlink(tempFile) in the finally block, its error ignored
unlinkTemp(rec, t) == [t EXCEPT ![rec.tempTs] = 0]

\* what fs.access finds
Files(files, t) == files \cup {tempFileName(ts) : ts \in {x \in DOMAIN t : t[x] # 0}}

\* mutant: the error of parseSummary is not caught
summarizeNoCatch(rec, file) ==
    LET r == parseSummary(file)
    IN [rec EXCEPT !.summaryTries = @ + 1,
                   !.summaryError = r.error,
                   !.thrown = r.error,
                   !.result.summary = r.summary]

\* try { summary = await this.parseSummary(...) } catch { console.warn }
summarize(rec, file) ==
    LET r == parseSummary(file)
    IN [rec EXCEPT !.summaryTries = @ + 1,
                   !.summaryError = r.error,
                   !.result.summary = r.summary]

\* getVersion's catch: new Error(`Failed to get Artillery version: ${error}`)
versionError(err) ==
    CASE err = "Command timed out" -> "Failed to get Artillery version: Error: Command timed out"
      [] OTHER -> "Failed to get Artillery version: Error: spawn error"

\* runTestFromFile parses a summary if options.outputJson, quickTest always
wantsSummary(rec) == IF rec.tool = "quick_test" THEN TRUE ELSE rec.outputJson

\* mutant: the summary is read as soon as the promise settles, rejected or not
afterRunNoWait(rec) == [rec EXCEPT !.pc = "summarize"]

\* mutant: a rejected run is started again
afterRunRetry(rec) ==
    IF rec.run.promise.state = "rejected" THEN [rec EXCEPT !.pc = "spawn"]
    ELSE finishCall([rec EXCEPT !.result.exitCode = rec.run.promise.value.exitCode])

\* after await this.runCommand(...)
afterRun(rec) ==
    LET p == rec.run.promise
    IN IF rec.tool = "list_capabilities"
       THEN IF p.state = "rejected"
            THEN finishCall([rec EXCEPT !.thrown = versionError(p.error)])
            ELSE finishCall(rec)
       ELSE IF p.state = "rejected"
            THEN finishCall([rec EXCEPT !.thrown = p.error])
            ELSE IF wantsSummary(rec) /\ p.value.exitCode = 0
                 THEN [rec EXCEPT !.pc = "summarize", !.result.exitCode = p.value.exitCode]
                 ELSE finishCall([rec EXCEPT !.result.exitCode = p.value.exitCode])

(***************************************************************************)
(* Inputs                                                                  *)
(***************************************************************************)
\* the file system: /w is the work directory, /wx a sibling whose name
\* starts with the work directory's, /e another directory
Dirs == {<<"/", "w">>, <<"/", "w", "/", "t", "e", "m", "p">>, <<"/", "w", "x">>, <<"/", "e">>}
CandidateFiles ==
    {<<"/", "w", "/", "a">>, <<"/", "w", "x", "/", "s">>, <<"/", "e", "/", "p">>}
FsInit == Dirs \cup CandidateFiles

PathInputs ==
    {<<"a">>, <<"b">>, <<".", ".", "/", "w", "x", "/", "s">>,
     <<"/", "e", "/", "p">>, <<"p">>}
CwdInputs == {<<>>, <<"/", "e">>}

MorePathInputs ==
    PathInputs \cup
    {<<".">>, <<"t", "e", "m", "p", "/", ".", ".", "/", "a">>, <<"/", "w", "/", "a">>,
     <<".", ".", "/", ".", ".", "/", "e", "/", "p">>, <<"/", "w", "x", "/", "s">>,
     <<".", ".", "/", "w", "/", "a">>, <<".", ".", "/", "w", "x">>}
MoreCwdInputs == CwdInputs \cup {<<"/", "w">>, <<"/", "w", "x">>, <<"/", "w", "/", "t", "e", "m", "p">>}

FileRequests ==
    {[tool |-> "run_test_from_file", path |-> p, cwd |-> d, validateOnly |-> v, outputJson |-> o] :
        p \in PathInputs, d \in CwdInputs, v \in BOOLEAN, o \in BOOLEAN}
InlineRequests ==
    {[tool |-> "run_test_inline", path |-> <<>>, cwd |-> d, validateOnly |-> v, outputJson |-> o] :
        d \in CwdInputs, v \in BOOLEAN, o \in BOOLEAN}

QuickTargets == {<<"h", "t", "t", "p", ":", "/", "/", "h">>,
                 <<"h", "t", "t", "p", "s", ":", "/", "/", "h">>}
QuickDurations == {<<>>, <<"2", "s">>, <<"1", "m">>, <<"0", "s">>, <<"x">>}
QuickRequests ==
    {[tool |-> "quick_test", path |-> <<>>, cwd |-> <<>>, validateOnly |-> FALSE,
      outputJson |-> FALSE,
      quick |-> [target |-> t, rate |-> r, duration |-> d, count |-> n]] :
        t \in QuickTargets, r \in {0, 1, 2}, d \in QuickDurations, n \in {0, 3}}
ParseRequests ==
    {[tool |-> "parse_results", path |-> p, cwd |-> <<>>, validateOnly |-> FALSE,
      outputJson |-> FALSE] : p \in {<<"/", "w", "/", "r">>, <<"r">>}}
CapabilityRequests ==
    {[tool |-> "list_capabilities", path |-> <<>>, cwd |-> <<>>, validateOnly |-> FALSE,
      outputJson |-> FALSE]}

ChunkSizes == {1, maxOutputBytes}

\* results files: the layout of Artillery 2 (aggregate.counters, .rates,
\* .summaries) and the metrics.http layout, each field present or absent
OldDoc(c, r, rt, e) ==
    JObj("aggregate" :> JObj(
        ("counters" :> JObj(Opt("http.requests", c) @@ Opt("http.errors", e)))
        @@ ("rates" :> JObj(Opt("http.request_rate", r)))
        @@ ("summaries" :> JObj(Opt("http.response_time", rt)))))
NewDoc(c, r, rt, e) ==
    JObj("metrics" :> JObj("http" :> JObj(
        ("requests" :> JObj(Opt("count", c) @@ Opt("rate", r)))
        @@ Opt("response_time", rt) @@ Opt("errors", e))))

Percentiles == JObj(("p50" :> JNum(150)) @@ ("p95" :> JNum(300)) @@ ("p99" :> JNum(500)))
SomeErrors == JObj("ETIMEDOUT" :> JNum(5))

CountValues == {JUndef, JNum(0), JNum(100)}
RateValues == {JUndef, JNum(0), JNum(10)}
TimeValues == {JUndef, JNull, JNum(7), Percentiles}
ErrorValues == {JUndef, SomeErrors}

OtherDocs ==
    {JNull, JNum(0), JNum(3), JStr(""), JStr("x"), JArr, JObj(NoFields),
     JObj("aggregate" :> JNull), JObj("aggregate" :> JNum(5)),
     JObj("aggregate" :> JObj("counters" :> JStr("x")))}

ResultDocs ==
    {OldDoc(c, r, rt, e) : c \in CountValues, r \in RateValues, rt \in TimeValues, e \in ErrorValues}
    \cup {NewDoc(c, r, rt, e) : c \in CountValues, r \in RateValues, rt \in TimeValues, e \in ErrorValues}
    \cup OtherDocs

ResultFiles ==
    {[kind |-> "unreadable", doc |-> JUndef], [kind |-> "invalid", doc |-> JUndef]}
    \cup {[kind |-> "json", doc |-> d] : d \in ResultDocs}

\* the results files a run leaves behind
SomeResultFiles ==
    {[kind |-> "unreadable", doc |-> JUndef], [kind |-> "invalid", doc |-> JUndef],
     [kind |-> "json", doc |-> JNull],
     [kind |-> "json", doc |-> OldDoc(JNum(100), JNum(10), Percentiles, SomeErrors)],
     [kind |-> "json", doc |-> NewDoc(JNum(100), JNum(10), Percentiles, SomeErrors)]}


(***************************************************************************)
(* Actions                                                                 *)
(***************************************************************************)
NoProbe == [kind |-> "none"]

Init ==
    /\ calls = [c \in Calls |-> IdleCall]
    /\ tmp = [t \in 0..MaxClock |-> 0]
    /\ now = 0
    /\ fs = FsInit
    /\ san = [applied |-> FALSE, filePath |-> <<>>, cwd |-> <<>>,
              res |-> [ok |-> FALSE, error |-> "none", path |-> <<>>]]
    /\ config = [allowQuick |-> TRUE]
    /\ probe = NoProbe

\* Date.now() advances
Tick ==
    /\ now < MaxClock
    /\ now' = now + 1
    /\ UNCHANGED <<calls, tmp, fs, san, config, probe>>

\* a request arrives at a tool
ToolCall(c, reqs) ==
    /\ calls[c].pc = "idle"
    /\ \E req \in reqs : calls' = [calls EXCEPT ![c] = toolCall(req)]
    /\ UNCHANGED <<tmp, now, fs, san, config, probe>>

\* runTestInline: mkdir has resolved, the temp file is named and its write issued
InlineName(c) ==
    /\ calls[c].pc = "mkdir"
    /\ calls' = [calls EXCEPT ![c].tempTs = now, ![c].pc = "write"]
    /\ UNCHANGED <<tmp, now, fs, san, config, probe>>

\* runTestInline: fs.writeFile(tempFile, configText) completes
InlineWrite(c) ==
    /\ calls[c].pc = "write"
    /\ tmp' = [tmp EXCEPT ![calls[c].tempTs] = c]
    /\ calls' = [calls EXCEPT ![c].pc = "sanitize",
                              ![c].steps = Append(@, "write"),
                              ![c].overwrote = IF tmp[calls[c].tempTs] = c THEN 0
                                               ELSE tmp[calls[c].tempTs]]
    /\ UNCHANGED <<now, fs, san, config, probe>>

\* runTestFromFile: await this.sanitizePath(filePath, options.cwd)
Sanitize(c) ==
    /\ calls[c].pc = "sanitize"
    /\ LET rec == [calls[c] EXCEPT !.steps = Append(@, "sanitize")]
           filePath == IF rec.tool = "run_test_inline" THEN tempFileName(rec.tempTs)
                       ELSE rec.path
           res == sanitizePath(filePath, rec.cwd, Files(fs, tmp))
       IN calls' = [calls EXCEPT ![c] =
               IF res.ok THEN [rec EXCEPT !.pc = "spawn", !.resolved = res.path]
               ELSE finishCall([rec EXCEPT !.thrown = res.error])]
    /\ UNCHANGED <<tmp, now, fs, san, config, probe>>

\* runTestFromFile: this.runCommand(args, {cwd: options.cwd || workDir, ...})
Spawn(c) ==
    /\ calls[c].pc = "spawn"
    /\ calls' = [calls EXCEPT
           ![c].run = spawnChild(calls[c].resolved,
                                 IF calls[c].cwd # <<>> THEN calls[c].cwd ELSE config_workDir),
           ![c].spawns = @ + 1,
           ![c].steps = Append(@, "spawn"),
           ![c].pc = "await"]
    /\ UNCHANGED <<tmp, now, fs, san, config, probe>>

StdoutData(c) ==
    /\ calls[c].run.child = "running"
    /\ Len(calls[c].run.stdout) < MaxChunks
    /\ \E n \in ChunkSizes :
          calls' = [calls EXCEPT ![c].run = onStdoutData(@, [src |-> c, len |-> n])]
    /\ UNCHANGED <<tmp, now, fs, san, config, probe>>

StderrData(c) ==
    /\ calls[c].run.child = "running"
    /\ Len(calls[c].run.stderr) < MaxChunks
    /\ \E n \in ChunkSizes :
          calls' = [calls EXCEPT ![c].run = onStderrData(@, [src |-> c, len |-> n])]
    /\ UNCHANGED <<tmp, now, fs, san, config, probe>>

\* mutant: one kill switch for all the subprocesses
TimeoutKillsAll(c) ==
    /\ calls[c].run.timer = "armed"
    /\ calls' = [d \in Calls |->
                    IF d = c THEN [calls[d] EXCEPT !.run = onTimeout(@)]
                    ELSE [calls[d] EXCEPT !.run.killed = TRUE]]
    /\ UNCHANGED <<tmp, now, fs, san, config, probe>>

Timeout(c) ==
    /\ calls[c].run.timer = "armed"
    /\ calls' = [calls EXCEPT ![c].run = onTimeout(@)]
    /\ UNCHANGED <<tmp, now, fs, san, config, probe>>

Close(c) ==
    /\ calls[c].run.child = "running"
    /\ \E ev \in CloseEvents :
          calls' = [calls EXCEPT ![c].run = onClose(@, ev), ![c].steps = Append(@, "exit")]
    /\ UNCHANGED <<tmp, now, fs, san, config, probe>>

Error(c) ==
    /\ calls[c].run.child = "running"
    /\ ~calls[c].run.errored
    /\ calls' = [calls EXCEPT ![c].run = onError(@)]
    /\ UNCHANGED <<tmp, now, fs, san, config, probe>>

\* the promise of runCommand has settled and runTestFromFile resumes
AfterRun(c) ==
    /\ calls[c].pc = "await"
    /\ calls[c].run.promise.state # "pending"
    /\ calls' = [calls EXCEPT ![c] = afterRun(@)]
    /\ UNCHANGED <<tmp, now, fs, san, config, probe>>

\* try { summary = await this.parseSummary(outputJson) } catch { }
Summarize(c) ==
    /\ calls[c].pc = "summarize"
    /\ \E file \in SomeResultFiles :
          calls' = [calls EXCEPT ![c] =
              finishCall(summarize([@ EXCEPT !.steps = Append(@, "summarize")], file))]
    /\ UNCHANGED <<tmp, now, fs, san, config, probe>>

\* runTestInline: finally { await fs.unlink(tempFile) }: the operating
\* system carries out the unlink; the call is still suspended
Unlink(c) ==
    /\ calls[c].pc = "cleanup"
    /\ tmp' = unlinkTemp(calls[c], tmp)
    /\ calls' = [calls EXCEPT ![c].pc = "unlinked",
                              ![c].unlinkedOf = tmp[calls[c].tempTs]]
    /\ UNCHANGED <<now, fs, san, config, probe>>

\* runTestInline: the completion of fs.unlink (its error ignored) is
\* delivered, the call resumes, then the tool's return or catch
Cleanup(c) ==
    /\ calls[c].pc = "unlinked"
    /\ calls' = [calls EXCEPT ![c].pc = "done",
                              ![c].output = toolOutput(calls[c])]
    /\ UNCHANGED <<tmp, now, fs, san, config, probe>>

\* quickTest up to its await of runCommand
QuickTest(c) ==
    /\ calls[c].pc = "quick"
    /\ LET rec == calls[c]
       IN calls' = [calls EXCEPT ![c] =
              IF quickDisabled(config)
              THEN finishCall([rec EXCEPT !.thrown =
                       "Quick tests are disabled. Set ARTILLERY_ALLOW_QUICK=false to disable."])
              ELSE [rec EXCEPT !.args = quickArgs(rec.quick, now),
                               !.outputFile = quickOutputFile(now),
                               !.run = spawnChild(<<>>, config_workDir),
                               !.spawns = rec.spawns + 1,
                               !.pc = "await"]]
    /\ UNCHANGED <<tmp, now, fs, san, config, probe>>

\* ParseResultsTool.call on what the file holds
ParseResults(c) ==
    /\ calls[c].pc = "parse"
    /\ \E file \in SomeResultFiles :
          LET r == parseResultsTool(calls[c].path, file)
              rec == calls[c]
          IN calls' = [calls EXCEPT ![c] =
                 finishCall([rec EXCEPT !.thrown = r.thrown, !.result.summary = r.summary])]
    /\ UNCHANGED <<tmp, now, fs, san, config, probe>>

\* getVersion: this.runCommand(['--version'], { timeout: 10000 })
GetVersion(c) ==
    /\ calls[c].pc = "version"
    /\ calls' = [calls EXCEPT ![c].args = << <<"-", "-", "v", "e", "r", "s", "i", "o", "n">> >>,
                              ![c].run = spawnChild(<<>>, ProcessCwd),
                              ![c].spawns = @ + 1,
                              ![c].pc = "await"]
    /\ UNCHANGED <<tmp, now, fs, san, config, probe>>

RunnerStep(c) ==
    \/ Timeout(c)
    \/ Close(c)
    \/ Error(c)

FacadeStep(c) ==
    \/ InlineName(c)
    \/ InlineWrite(c)
    \/ Sanitize(c)
    \/ Spawn(c)
    \/ AfterRun(c)
    \/ Summarize(c)
    \/ Unlink(c)
    \/ Cleanup(c)

\* one call at a time, every tool and every stream event
Next ==
    \/ Tick
    \/ ToolCall(1, FileRequests \cup InlineRequests)
    \/ FacadeStep(1)
    \/ RunnerStep(1)
    \/ StdoutData(1)
    \/ StderrData(1)

Spec == Init /\ [][Next]_vars

\* concurrent run_test_inline calls
NextInline ==
    \/ Tick
    \/ \E c \in Calls : ToolCall(c, InlineRequests)
    \/ \E c \in Calls : FacadeStep(c)
    \/ \E c \in Calls : RunnerStep(c)

SpecInline == Init /\ [][NextInline]_vars

\* one call of any of the five tools, quick tests allowed or not
InitTools ==
    /\ calls = [c \in Calls |-> IdleCall]
    /\ tmp = [t \in 0..MaxClock |-> 0]
    /\ now = 0
    /\ fs = FsInit
    /\ san = [applied |-> FALSE, filePath |-> <<>>, cwd |-> <<>>,
              res |-> [ok |-> FALSE, error |-> "none", path |-> <<>>]]
    /\ config \in [allowQuick : BOOLEAN]
    /\ probe = NoProbe

ToolStep(c) ==
    \/ QuickTest(c)
    \/ ParseResults(c)
    \/ GetVersion(c)

NextTools ==
    \/ Tick
    \/ ToolCall(1, FileRequests \cup InlineRequests \cup QuickRequests
                       \cup ParseRequests \cup CapabilityRequests)
    \/ ToolStep(1)
    \/ FacadeStep(1)
    \/ RunnerStep(1)

SpecTools == InitTools /\ [][NextTools]_vars

\* the chunks the subprocesses have written so far, all streams together
RECURSIVE ChunksWritten(_)
ChunksWritten(cs) ==
    IF cs = {} THEN 0
    ELSE LET c == CHOOSE x \in cs : TRUE
         IN Len(calls[c].run.stdout) + Len(calls[c].run.stderr) + ChunksWritten(cs \ {c})

\* concurrent list_capabilities calls: two runCommand calls, each with its
\* own subprocess, events interleaved in every way, MaxChunks chunks in all
NextRunners ==
    \/ \E c \in Calls : ToolCall(c, CapabilityRequests)
    \/ \E c \in Calls : GetVersion(c)
    \/ \E c \in Calls : AfterRun(c)
    \/ \E c \in Calls : RunnerStep(c)
    \/ \E c \in Calls : ChunksWritten(Calls) < MaxChunks /\ StdoutData(c)
    \/ \E c \in Calls : ChunksWritten(Calls) < MaxChunks /\ StderrData(c)

SpecRunners == Init /\ [][NextRunners]_vars

\* the same, with the timer callback of setTimeout run once its delay has
\* passed unless clearTimeout came first; nothing is assumed of the subprocess
SpecLive == InitTools /\ [][NextTools]_vars /\ WF_vars(Timeout(1))

\* sanitizePath applied to every input, under every file system
InitSanitize ==
    /\ calls = [c \in Calls |-> IdleCall]
    /\ tmp = [t \in 0..MaxClock |-> 0]
    /\ now = 0
    /\ fs \in {Dirs \cup F : F \in SUBSET CandidateFiles}
    /\ san = [applied |-> FALSE, filePath |-> <<>>, cwd |-> <<>>,
              res |-> [ok |-> FALSE, error |-> "none", path |-> <<>>]]
    /\ config = [allowQuick |-> TRUE]
    /\ probe = NoProbe

ApplySanitize ==
    /\ \E p \in MorePathInputs, d \in MoreCwdInputs :
          san' = [applied |-> TRUE, filePath |-> p, cwd |-> d,
                  res |-> sanitizePath(p, d, Files(fs, tmp))]
    /\ UNCHANGED <<calls, tmp, now, fs, config, probe>>

SpecSanitize == InitSanitize /\ [][ApplySanitize]_vars

\* parseSummary and the parse_results tool applied to every results file
ResultsPath == <<"/", "w", "/", "r">>

InitSummary ==
    /\ calls = [c \in Calls |-> IdleCall]
    /\ tmp = [t \in 0..MaxClock |-> 0]
    /\ now = 0
    /\ fs = FsInit
    /\ san = [applied |-> FALSE, filePath |-> <<>>, cwd |-> <<>>,
              res |-> [ok |-> FALSE, error |-> "none", path |-> <<>>]]
    /\ config = [allowQuick |-> TRUE]
    /\ probe \in {[kind |-> "results file", file |-> file] : file \in ResultFiles}

ApplySummary ==
    /\ probe.kind = "results file"
    /\ probe' = [kind |-> "summary", file |-> probe.file,
                 res |-> parseSummary(probe.file),
                 tool |-> parseResultsTool(ResultsPath, probe.file)]
    /\ UNCHANGED <<calls, tmp, now, fs, san, config>>

SpecSummary == InitSummary /\ [][ApplySummary]_vars

\* parseDuration applied to every string up to MaxDurationLen characters
MaxDurationLen == 3

DurationChars == {"0", "1", "2", "3", "s", "m", "h", "d", "a"}

DurationInputs == UNION {[1..n -> DurationChars] : n \in 0..MaxDurationLen}

InitDuration ==
    /\ calls = [c \in Calls |-> IdleCall]
    /\ tmp = [t \in 0..MaxClock |-> 0]
    /\ now = 0
    /\ fs = FsInit
    /\ san = [applied |-> FALSE, filePath |-> <<>>, cwd |-> <<>>,
              res |-> [ok |-> FALSE, error |-> "none", path |-> <<>>]]
    /\ config = [allowQuick |-> TRUE]
    /\ probe \in {[kind |-> "duration string", input |-> d] : d \in DurationInputs}

ApplyDuration ==
    /\ probe.kind = "duration string"
    /\ probe' = [kind |-> "duration", input |-> probe.input,
                 seconds |-> parseDuration(probe.input)]
    /\ UNCHANGED <<calls, tmp, now, fs, san, config>>

SpecDuration == InitDuration /\ [][ApplyDuration]_vars

\* detectBinary applied to every environment
BinPaths == { <<"/", "a">>, <<"/", "b">> }

BinEnvs == {Unset, EnvStr(<<>>)} \cup {EnvStr(b) : b \in BinPaths}

InitDetect ==
    /\ calls = [c \in Calls |-> IdleCall]
    /\ tmp = [t \in 0..MaxClock |-> 0]
    /\ now = 0
    /\ fs = FsInit
    /\ san = [applied |-> FALSE, filePath |-> <<>>, cwd |-> <<>>,
              res |-> [ok |-> FALSE, error |-> "none", path |-> <<>>]]
    /\ config = [allowQuick |-> TRUE]
    /\ probe \in {[kind |-> "environment", envBin |-> b, accessible |-> acc, onPath |-> w] :
                     b \in BinEnvs, acc \in SUBSET BinPaths,
                     w \in SUBSET {binaryNames[i] : i \in DOMAIN binaryNames}}

ApplyDetect ==
    /\ probe.kind = "environment"
    /\ probe' = [kind |-> "detected", envBin |-> probe.envBin,
                 accessible |-> probe.accessible, onPath |-> probe.onPath,
                 res |-> detectBinary(probe.envBin, probe.accessible, probe.onPath)]
    /\ UNCHANGED <<calls, tmp, now, fs, san, config>>

SpecDetect == InitDetect /\ [][ApplyDetect]_vars

\* loadConfiguration applied to every environment; start() stops the
\* process when it throws
TimeoutEnvs ==
    {Unset, EnvStr(<<>>), EnvStr(<<"9", "9", "9">>), EnvStr(<<"1", "0", "0", "0">>),
     EnvStr(<<"7", "2", "0", "0", "0", "0", "0">>), EnvStr(<<"7", "2", "0", "0", "0", "0", "1">>),
     EnvStr(<<"a", "b", "c">>), EnvStr(<<"5", "0", "0", "0", "a", "b", "c">>),
     EnvStr(<<"-", "5">>), EnvStr(<<"0", "x", "3", "E", "8">>),
     EnvStr(<<"\t", "5">>), EnvStr(<<"\n", "9", "9", "9">>),
     EnvStr(<<" ", "\t", "2", "0", "0", "0">>)}

MaxOutputEnvs ==
    {Unset, EnvStr(<<"0">>), EnvStr(<<"1">>), EnvStr(<<"1", "0", "0">>),
     EnvStr(<<"1", "0", "1">>), EnvStr(<<"m", "b">>), EnvStr(<<" ", "5">>),
     EnvStr(<<"\t", "0">>), EnvStr(<<"\r", "", "5">>)}

AllowQuickEnvs == {Unset, EnvStr(<<"t", "r", "u", "e">>), EnvStr(<<"1">>)}

WorkDirEnvs == {Unset, EnvStr(config_workDir)}

StartEnvs ==
    [bin : {Unset, EnvStr(<<"/", "a">>)}, workDir : WorkDirEnvs, timeoutMs : TimeoutEnvs,
     maxOutputMb : MaxOutputEnvs, allowQuick : AllowQuickEnvs]

InitConfig ==
    /\ calls = [c \in Calls |-> IdleCall]
    /\ tmp = [t \in 0..MaxClock |-> 0]
    /\ now = 0
    /\ fs = FsInit
    /\ san = [applied |-> FALSE, filePath |-> <<>>, cwd |-> <<>>,
              res |-> [ok |-> FALSE, error |-> "none", path |-> <<>>]]
    /\ config = [allowQuick |-> TRUE]
    /\ probe \in {[kind |-> "starting", env |-> env, accessible |-> acc, onPath |-> w] :
                     env \in StartEnvs,
                     acc \in SUBSET {<<"/", "a">>, config_workDir, ProcessCwd},
                     w \in {{}, {binaryNames[1]}}}

Start ==
    /\ probe.kind = "starting"
    /\ LET loaded == loadConfiguration(probe.env, probe.accessible, probe.onPath)
       IN probe' = [kind |-> IF loaded.ok THEN "started" ELSE "exited",
                    env |-> probe.env, error |-> loaded.error, config |-> loaded.config]
    /\ UNCHANGED <<calls, tmp, now, fs, san, config>>

SpecConfig == InitConfig /\ [][Start]_vars

\* quickTest's argument list for every combination of options
\* targets: beside http://h and https://h, a longer scheme (httpsx://h), the
\* https scheme in capitals (HTTPS://h, Https://h), the https scheme followed
\* by one slash (https:/h) or none (https:h), and a target with no scheme
MoreQuickTargets ==
    QuickTargets \cup {<<"h", "t", "t", "p", "s", "x", ":", "/", "/", "h">>,
                       <<"H", "T", "T", "P", "S", ":", "/", "/", "h">>,
                       <<"H", "t", "t", "p", "s", ":", "/", "/", "h">>,
                       <<"h", "t", "t", "p", "s", ":", "/", "h">>,
                       <<"h", "t", "t", "p", "s", ":", "h">>,
                       <<"h">>}

MoreQuickDurations ==
    QuickDurations \cup {<<"3">>, <<"5", "s">>, <<"1", "h">>, <<"1", "d">>}

QuickOptions ==
    [target : MoreQuickTargets, rate : {0, 1, 2, 3}, duration : MoreQuickDurations,
     count : {0, 1, 3, 4}]

InitQuick ==
    /\ calls = [c \in Calls |-> IdleCall]
    /\ tmp = [t \in 0..MaxClock |-> 0]
    /\ now \in 0..MaxClock
    /\ fs = FsInit
    /\ san = [applied |-> FALSE, filePath |-> <<>>, cwd |-> <<>>,
              res |-> [ok |-> FALSE, error |-> "none", path |-> <<>>]]
    /\ config = [allowQuick |-> TRUE]
    /\ probe \in {[kind |-> "quick options", options |-> o] : o \in QuickOptions}

ApplyQuick ==
    /\ probe.kind = "quick options"
    /\ probe' = [kind |-> "quick args", options |-> probe.options,
                 args |-> quickArgs(probe.options, now)]
    /\ UNCHANGED <<calls, tmp, now, fs, san, config>>

SpecQuick == InitQuick /\ [][ApplyQuick]_vars

(***************************************************************************)
(* Properties                                                              *)
(***************************************************************************)
Executing(c) == calls[c].pc \notin {"idle", "done"}

\* C1: once the timeout timer has fired (it fires only before 'close'), a
\* SIGKILL has been sent, the promise of runCommand is rejected with the
\* timeout error and stays so when 'close' arrives: it never carries an
\* outcome, and the finished call reports the timeout as an error.
C1_TimeoutFailsTheCall ==
    \A c \in Calls :
        calls[c].run.timer = "fired" =>
            /\ calls[c].run.sigkill = 1
            /\ calls[c].run.promise.state = "rejected"
            /\ calls[c].run.promise.error = "Command timed out"
            /\ calls[c].pc = "done" =>
                  /\ calls[c].output.status = "error"
                  /\ calls[c].output.message = "Command timed out"

C1_Witness ==
    \E c \in Calls :
        /\ calls[c].run.timer = "fired"
        /\ calls[c].run.child = "closed"
        /\ calls[c].run.promise.state = "rejected"
        /\ calls[c].pc = "done"

\* C2: the stdout of every outcome runCommand resolves with is at most
\* maxOutputBytes long, and a subprocess that closes without a timeout or an
\* 'error' event resolves, whatever it wrote.
C2_StdoutWithinCap ==
    \A c \in Calls :
        /\ calls[c].run.promise.state = "resolved" =>
              StrLen(calls[c].run.promise.value.stdout) <= maxOutputBytes
        /\ (calls[c].run.child = "closed" /\ ~calls[c].run.errored
                /\ calls[c].run.timer # "fired") =>
              calls[c].run.promise.state = "resolved"

\* the work directory sanitizePath checks against: cwd, else config.workDir
SanWorkDir == pathResolve(IF san.cwd # <<>> THEN san.cwd ELSE config_workDir, <<>>)
SanResolved == pathResolve(SanWorkDir, san.filePath)

\* C3: a path sanitizePath accepts resolves to the work directory or to a
\* descendant of it, and a path that resolves to neither is rejected with the
\* path-escape error.
C3_AcceptedIsWithinWorkDir ==
    san.applied =>
        /\ san.res.ok => IsWithin(SanResolved, SanWorkDir)
        /\ ~IsWithin(SanResolved, SanWorkDir) =>
              san.res.error = "outside allowed working directory"

\* C4: the config path of every spawned run lies inside config.workDir,
\* whatever cwd the caller gave.
C4_ConfigPathInsideWorkDir ==
    \A c \in Calls :
        calls[c].run.child # "none" => IsWithin(calls[c].run.configPath, config_workDir)

\* C5: for a path that resolves outside the work directory, sanitizePath
\* fails with the path-escape error under every file system, the target
\* existing or not.
C5_EscapeBeforeExistence ==
    (san.applied /\ ~IsWithin(SanResolved, SanWorkDir)) =>
        \A F \in SUBSET CandidateFiles :
            sanitizePath(san.filePath, san.cwd, Dirs \cup F).error
                = "outside allowed working directory"

\* C6: when a run_test_inline call has completed, the temp file it wrote is
\* gone, whether the run succeeded, sanitizePath threw, the spawn failed or
\* the run timed out.
C6_TempFileRemoved ==
    \A c \in Calls :
        (calls[c].tool = "run_test_inline" /\ calls[c].pc = "done" /\ calls[c].tempTs >= 0) =>
            tmp[calls[c].tempTs] # c

C6_Witness ==
    \E c1, c2 \in Calls :
        /\ calls[c1].pc = "done" /\ calls[c1].tempTs >= 0
        /\ calls[c1].thrown = "Command timed out"
        /\ calls[c2].pc = "done" /\ calls[c2].tempTs >= 0
        /\ calls[c2].thrown = "none"
        /\ tmp[calls[c1].tempTs] = 0 /\ tmp[calls[c2].tempTs] = 0

\* C7: two run_test_inline calls executing at the same time have temp files
\* of distinct names, no call's write replaces another call's temp file and
\* no call's cleanup deletes a temp file another call wrote.
C7_TempFilesDistinct ==
    /\ \A c1, c2 \in Calls :
          (c1 # c2 /\ Executing(c1) /\ Executing(c2)
              /\ calls[c1].tempTs >= 0 /\ calls[c2].tempTs >= 0) =>
             calls[c1].tempTs # calls[c2].tempTs
    /\ \A c \in Calls : calls[c].overwrote = 0 /\ calls[c].unlinkedOf \in {0, c}

\* C8: runCommand rejects only after an 'error' event or the timeout; a
\* subprocess that closes with a nonzero exit code (no 'error', no timeout)
\* resolves with that code, and the tool returns it with status ok.
C8_NonzeroExitIsAnOutcome ==
    \A c \in Calls :
        LET r == calls[c].run
            nonzero == /\ r.child = "closed" /\ r.closeEv.hasCode /\ r.closeEv.code # 0
                       /\ ~r.errored /\ r.timer # "fired"
        IN /\ r.promise.state = "rejected" => (r.errored \/ r.timer = "fired")
           /\ nonzero => /\ r.promise.state = "resolved"
                         /\ r.promise.value.exitCode = r.closeEv.code
           /\ (nonzero /\ calls[c].pc = "done") =>
                 /\ calls[c].output.status = "ok"
                 /\ calls[c].output.exitCode = r.closeEv.code

C8_Witness ==
    \E c \in Calls :
        /\ calls[c].run.child = "closed"
        /\ calls[c].run.closeEv.hasCode /\ calls[c].run.closeEv.code = 1
        /\ calls[c].pc = "done"
        /\ calls[c].output.status = "ok" /\ calls[c].output.exitCode = 1

\* C9: when the subprocess closes without an exit code, ended by a signal
\* that is not the runner's own kill, the outcome's exitCode is not 0.
C9_SignalExitIsNonzero ==
    \A c \in Calls :
        LET r == calls[c].run
        IN (r.child = "closed" /\ ~r.closeEv.hasCode /\ r.closeEv.signal # "none"
               /\ ~r.killed /\ r.promise.state = "resolved") =>
              r.promise.value.exitCode # 0

\* C10: a call with validateOnly = true is done at once with status ok, exit
\* code 0 and the tool's fixed confirmation message, and spawns no subprocess.
C10_ValidateOnlySpawnsNothing ==
    \A c \in Calls :
        (calls[c].validateOnly /\ calls[c].pc # "idle") =>
            /\ calls[c].pc = "done"
            /\ calls[c].output.status = "ok"
            /\ calls[c].output.exitCode = 0
            /\ calls[c].output.message =
                  (IF calls[c].tool = "run_test_from_file"
                   THEN "Configuration validated successfully (dry-run)"
                   ELSE "Inline configuration validated successfully (dry-run)")
            /\ calls[c].spawns = 0
            /\ calls[c].run.child = "none"
            /\ calls[c].tempTs = -1

C10_Witness ==
    \E c \in Calls :
        /\ calls[c].validateOnly
        /\ calls[c].tool = "run_test_from_file"
        /\ calls[c].pc = "done"
        /\ calls[c].output.status = "ok"

\* C11: a run_test_from_file call, validate-only or not, reports success only
\* for a path that sanitizePath accepts as it should: one that resolves
\* inside the work directory and exists; any other path gives an error result.
C11_SuccessOnlyForSanitizedPath ==
    \A c \in Calls :
        (calls[c].tool = "run_test_from_file" /\ calls[c].pc = "done") =>
            LET workDir == IF calls[c].cwd # <<>> THEN calls[c].cwd ELSE config_workDir
                resolvedPath == pathResolve(workDir, calls[c].path)
                valid == /\ IsWithin(resolvedPath, pathResolve(workDir, <<>>))
                         /\ resolvedPath \in Files(fs, tmp)
            IN /\ calls[c].output.status = "ok" => valid
               /\ ~valid => calls[c].output.status = "error"

\* C12: a finished run has called parseSummary exactly when runCommand
\* resolved with exit code 0 and outputJson was given, and never more than
\* once; when parseSummary threw, the call still returns status ok with the
\* run's exit code and no summary.
C12_SummaryFailureIsSwallowed ==
    \A c \in Calls :
        (calls[c].tool \in {"run_test_from_file", "run_test_inline"} /\ calls[c].pc = "done") =>
            LET p == calls[c].run.promise
            IN /\ calls[c].summaryTries \in {0, 1}
               /\ calls[c].summaryTries = 1 <=>
                     (p.state = "resolved" /\ calls[c].outputJson /\ p.value.exitCode = 0)
               /\ calls[c].summaryError # "none" =>
                     /\ calls[c].output.status = "ok"
                     /\ calls[c].output.exitCode = p.value.exitCode
                     /\ ~calls[c].result.summary.defined

C12_Witness ==
    \E c \in Calls :
        /\ calls[c].tool = "run_test_from_file" /\ calls[c].pc = "done"
        /\ calls[c].summaryError = "Cannot read properties of null"
        /\ calls[c].output.status = "ok"

NewLayoutFile(c, r, e) == [kind |-> "json", doc |-> NewDoc(c, r, Percentiles, e)]

\* C14: for a results file in the metrics.http layout, parseSummary and the
\* parse_results tool return the file's request count, rate, percentiles and
\* errors.
C14_NewLayoutIsExtracted ==
    \A c \in CountValues \ {JUndef}, r \in RateValues \ {JUndef}, e \in ErrorValues \ {JUndef} :
        (probe.kind = "summary" /\ probe.file = NewLayoutFile(c, r, e)) =>
            /\ probe.res.ok
            /\ probe.res.summary.requestsTotal = c
            /\ probe.res.summary.rpsAvg = r
            /\ probe.res.summary.p50 = JNum(150)
            /\ probe.res.summary.p95 = JNum(300)
            /\ probe.res.summary.p99 = JNum(500)
            /\ probe.res.summary.errors = e
            /\ probe.tool.thrown = "none"
            /\ probe.tool.summary = probe.res.summary

\* C15: parseSummary fails only for a file that cannot be read or is not
\* JSON; for every JSON value it returns a summary whose absent fields are 0
\* and whose absent errors are the empty object.
C15_SummaryOfEveryJsonValue ==
    probe.kind = "summary" =>
        /\ probe.res.ok <=> probe.file.kind = "json"
        /\ \A c \in CountValues, r \in RateValues, rt \in TimeValues, e \in ErrorValues :
              (probe.res.ok /\ probe.file.doc = OldDoc(c, r, rt, e)) =>
                  /\ c = JUndef => probe.res.summary.requestsTotal = JNum(0)
                  /\ r = JUndef => probe.res.summary.rpsAvg = JNum(0)
                  /\ rt = JUndef => /\ probe.res.summary.p50 = JNum(0)
                                    /\ probe.res.summary.p95 = JNum(0)
                                    /\ probe.res.summary.p99 = JNum(0)
                  /\ e = JUndef => probe.res.summary.errors = JObj(NoFields)

\* the integer a string of decimal digits denotes, by place value
RECURSIVE Pow10(_)
Pow10(k) == IF k = 0 THEN 1 ELSE 10 * Pow10(k - 1)

IsInteger(s) == Len(s) >= 1 /\ \A i \in 1..Len(s) : s[i] \in {Digit(n) : n \in 0..9}

RECURSIVE PlaceSum(_, _)
PlaceSum(s, i) ==
    IF i > Len(s) THEN 0
    ELSE (CHOOSE n \in 0..9 : Digit(n) = s[i]) * Pow10(Len(s) - i) + PlaceSum(s, i + 1)

UnitFactor == [u \in {"s", "m", "h", "d"} |->
                  IF u = "s" THEN 1 ELSE IF u = "m" THEN 60 ELSE IF u = "h" THEN 3600 ELSE 86400]

\* C16: parseDuration maps <integer><unit>? to integer * {s:1, m:60, h:3600,
\* d:86400}[unit], the unit defaulting to s, and every other string to 1.
C16_DurationSeconds ==
    probe.kind = "duration" =>
        LET d == probe.input
        IN IF IsInteger(d) THEN probe.seconds = PlaceSum(d, 1)
           ELSE IF Len(d) >= 2 /\ IsInteger(SubSeq(d, 1, Len(d) - 1)) /\ d[Len(d)] \in DOMAIN UnitFactor
                THEN probe.seconds = PlaceSum(SubSeq(d, 1, Len(d) - 1), 1) * UnitFactor[d[Len(d)]]
                ELSE probe.seconds = 1

C16_Witness ==
    \/ probe.kind = "duration" /\ probe.input = <<"3", "0", "s">> /\ probe.seconds = 30
    \/ probe.kind = "duration" /\ probe.input = <<"2", "m">> /\ probe.seconds = 120
    \/ probe.kind = "duration" /\ probe.input = <<"1", "h">> /\ probe.seconds = 3600
    \/ probe.kind = "duration" /\ probe.input = <<"1", "d">> /\ probe.seconds = 86400
    \/ probe.kind = "duration" /\ probe.input = <<"a">> /\ probe.seconds = 1

\* C18: with ARTILLERY_BIN set, detectBinary returns it verbatim if it is
\* accessible and otherwise fails with 'specified but not accessible', never
\* probing PATH; with it not set (undefined or empty) it returns the first of
\* artillery, artillery.exe that `which` resolves and fails with 'not found'
\* if neither does.
C18_DetectBinary ==
    probe.kind = "detected" =>
        LET set == probe.envBin.defined /\ Len(probe.envBin.value) > 0
            resolved == {i \in DOMAIN binaryNames : binaryNames[i] \in probe.onPath}
        IN IF set
           THEN IF probe.envBin.value \in probe.accessible
                THEN probe.res.ok /\ probe.res.value = probe.envBin.value
                ELSE ~probe.res.ok /\ probe.res.error = "ARTILLERY_BIN specified but not accessible"
           ELSE IF resolved # {}
                THEN /\ probe.res.ok
                     /\ probe.res.value = binaryNames[CHOOSE i \in resolved : \A j \in resolved : i <= j]
                ELSE ~probe.res.ok /\ probe.res.error = "Artillery binary not found in PATH"

C18_Witness ==
    /\ probe.kind = "detected"
    /\ probe.envBin = EnvStr(<<"/", "a">>)
    /\ <<"/", "a">> \notin probe.accessible
    /\ binaryNames[1] \in probe.onPath
    /\ ~probe.res.ok

InTimeoutRange(x) == ~x.nan /\ 1000 <= x.v /\ x.v <= 7200000
InMaxOutputRange(x) == ~x.nan /\ 1 <= x.v /\ x.v <= 100

\* C19: a configuration with which start-up completes has
\* 1000 <= timeoutMs <= 7200000 and 1 <= maxOutputMb <= 100; for any other
\* value of the environment settings loadConfiguration fails.
C19_StartedConfigInRange ==
    probe.kind = "started" =>
        /\ InTimeoutRange(probe.config.timeoutMs)
        /\ InMaxOutputRange(probe.config.maxOutputMb)

QuickDisabledMessage == "Quick tests are disabled. Set ARTILLERY_ALLOW_QUICK=false to disable."

\* C13: with config.allowQuick false, a quickTest call fails with the
\* quick-tests-disabled error whatever its options; it spawns no subprocess
\* and names no output file.
C13_QuickDisabledFailsAtOnce ==
    \A c \in Calls :
        (calls[c].tool = "quick_test" /\ ~config.allowQuick) =>
            /\ calls[c].pc \in {"quick", "done"}
            /\ calls[c].spawns = 0
            /\ calls[c].run.child = "none"
            /\ calls[c].args = <<>>
            /\ calls[c].outputFile = <<>>
            /\ calls[c].pc = "done" =>
                  /\ calls[c].output.status = "error"
                  /\ calls[c].output.message = QuickDisabledMessage

C13_Witness ==
    \E c \in Calls :
        /\ calls[c].tool = "quick_test"
        /\ ~config.allowQuick
        /\ calls[c].quick.rate = 2
        /\ calls[c].quick.count = 3
        /\ calls[c].pc = "done"
        /\ calls[c].output.message = QuickDisabledMessage
        /\ calls[c].spawns = 0

ExpectedErrorCode ==
    [t \in {"run_test_from_file", "run_test_inline", "quick_test", "parse_results",
            "list_capabilities"} |->
        IF t = "parse_results" THEN "PARSE_ERROR"
        ELSE IF t = "list_capabilities" THEN "CAPABILITIES_ERROR"
        ELSE "EXECUTION_ERROR"]

\* C17: a finished tool call has returned either status ok or status error;
\* it is status error exactly when something was thrown, and then the code
\* is EXECUTION_ERROR for run_test_from_file, run_test_inline and
\* quick_test, PARSE_ERROR for parse_results, CAPABILITIES_ERROR for
\* list_capabilities, and the message is the thrown error's.
C17_UniformOutcome ==
    \A c \in Calls :
        calls[c].pc = "done" =>
            /\ calls[c].output.status \in {"ok", "error"}
            /\ calls[c].output.status = "error" <=> calls[c].thrown # "none"
            /\ calls[c].output.status = "error" =>
                  /\ calls[c].output.code = ExpectedErrorCode[calls[c].tool]
                  /\ calls[c].output.message = calls[c].thrown
            /\ calls[c].output.status = "ok" => calls[c].output.code = "none"

C17_Witness ==
    \E c \in Calls :
        /\ calls[c].tool = "list_capabilities"
        /\ calls[c].pc = "done"
        /\ calls[c].run.promise.state = "rejected"
        /\ calls[c].output.status = "error"
        /\ calls[c].output.code = "CAPABILITIES_ERROR"

RunTools == {"run_test_from_file", "run_test_inline"}

Increasing(steps, rank) ==
    \A i, j \in DOMAIN steps : i < j => rank[steps[i]] < rank[steps[j]]

StatedRank == [sanitize |-> 1, write |-> 2, spawn |-> 3, exit |-> 4, summarize |-> 5]

CodeRank == [write |-> 1, sanitize |-> 2, spawn |-> 3, exit |-> 4, summarize |-> 5]

SpawnOnlyAfterSanitize(c) ==
    calls[c].spawns > 0 =>
        /\ \E i \in DOMAIN calls[c].steps : calls[c].steps[i] = "sanitize"
        /\ calls[c].resolved # <<>>
        /\ calls[c].resolved = calls[c].run.configPath

\* C20 as stated: within one runTestFromFile / runTestInline call the steps
\* come in the order sanitize, temp file write, spawn, exit, summarize; no
\* spawn unless sanitize succeeded, no summarize before the exit.
C20_StatedOrder ==
    \A c \in Calls :
        calls[c].tool \in RunTools =>
            /\ Increasing(calls[c].steps, StatedRank)
            /\ SpawnOnlyAfterSanitize(c)

\* C20: within one runTestFromFile / runTestInline call the steps come in
\* the order temp file write (inline only), sanitize, spawn, exit, summarize:
\* the temp file is written before its path is sanitized, the subprocess is
\* spawned only after sanitize succeeded, and summarize starts only after
\* the subprocess has exited.
C20_CodeOrder ==
    \A c \in Calls :
        calls[c].tool \in RunTools =>
            /\ Increasing(calls[c].steps, CodeRank)
            /\ SpawnOnlyAfterSanitize(c)
            /\ \A j \in DOMAIN calls[c].steps :
                  calls[c].steps[j] = "summarize" =>
                      \E i \in 1..(j - 1) : calls[c].steps[i] = "exit"

C20_Witness ==
    \E c \in Calls :
        /\ calls[c].tool = "run_test_inline"
        /\ calls[c].pc = "done"
        /\ calls[c].steps = <<"write", "sanitize", "spawn", "exit", "summarize">>

Settled(c) == calls[c].run.promise.state # "pending"

\* C21: a runCommand call whose subprocess is running settles in the end,
\* even if the subprocess never exits by itself; and when it has settled, a
\* 'close' event, the timeout or an 'error' event has occurred.
C21_RunnerSettles ==
    /\ \A c \in Calls : (calls[c].run.child = "running") ~> Settled(c)
    /\ [](\A c \in Calls :
             Settled(c) => \/ calls[c].run.child = "closed"
                           \/ calls[c].run.timer = "fired"
                           \/ calls[c].run.errored)

C21_Witness ==
    \E c \in Calls :
        /\ calls[c].run.child = "running"
        /\ calls[c].run.timer = "fired"
        /\ ~calls[c].run.errored
        /\ calls[c].run.promise.state = "rejected"

\* C22: a chunk of a stream that has reached maxOutputBytes leaves the runner
\* as it is (nothing captured, nothing raised); a chunk of a stream below its
\* cap is appended to that stream alone, whatever the other stream holds.
C22_StreamsCappedIndependently ==
    \A c \in Calls : \A n \in ChunkSizes :
        LET r == calls[c].run
            chunk == [src |-> c, len |-> n]
        IN r.child = "running" =>
              /\ StrLen(r.stdout) >= maxOutputBytes => onStdoutData(r, chunk) = r
              /\ StrLen(r.stderr) >= maxOutputBytes => onStderrData(r, chunk) = r
              /\ StrLen(r.stdout) < maxOutputBytes =>
                    onStdoutData(r, chunk) = [r EXCEPT !.stdout = Append(r.stdout, chunk)]
              /\ StrLen(r.stderr) < maxOutputBytes =>
                    onStderrData(r, chunk) = [r EXCEPT !.stderr = Append(r.stderr, chunk)]

C22_Witness ==
    \E c \in Calls :
        /\ calls[c].run.child = "running"
        /\ StrLen(calls[c].run.stdout) >= maxOutputBytes
        /\ calls[c].run.stderr # <<>>
        /\ StrLen(calls[c].run.stderr) < maxOutputBytes

\* C23: a call spawns at most one subprocess, and none once it has failed:
\* the count of spawns never passes 1, whatever the outcome of the first
\* subprocess, and a call that threw before spawning goes on to its end
\* without spawning.
C23_OneSpawnNoRetry ==
    \A c \in Calls :
        /\ calls[c].spawns <= 1
        /\ calls[c].spawns = 1 <=> calls[c].run.child # "none"
        /\ (calls[c].thrown # "none" /\ calls[c].run.child = "none") => calls[c].pc \in {"cleanup", "unlinked", "done"}

C23_Witness ==
    \E c \in Calls :
        /\ calls[c].pc = "done"
        /\ calls[c].output.status = "error"
        /\ calls[c].output.message = "Command timed out"
        /\ calls[c].spawns = 1

\* C24: of two concurrent runCommand calls, each captures the chunks of its
\* own subprocess only, and a call is killed, marked killed or rejected with
\* the timeout error only if its own timer fired; a call whose timer has not
\* fired and that got no 'error' event resolves when its subprocess closes,
\* whatever happened to the other call.
C24_RunnersIndependent ==
    \A c \in Calls :
        LET r == calls[c].run
        IN /\ \A i \in DOMAIN r.stdout : r.stdout[i].src = c
           /\ \A i \in DOMAIN r.stderr : r.stderr[i].src = c
           /\ r.promise.state = "resolved" =>
                 /\ r.promise.value.stdout = r.stdout
                 /\ r.promise.value.stderr = r.stderr
           /\ (r.killed \/ r.sigkill > 0 \/ r.promise.error = "Command timed out") =>
                 r.timer = "fired"
           /\ (r.child = "closed" /\ r.timer # "fired" /\ ~r.errored) =>
                 r.promise.state = "resolved"

C24_Witness ==
    \E c, d \in Calls :
        /\ c # d
        /\ calls[c].run.timer = "fired"
        /\ calls[c].run.promise.state = "rejected"
        /\ calls[d].run.timer = "cleared"
        /\ calls[d].run.promise.state = "resolved"
        /\ calls[d].run.stdout # <<>>
        /\ calls[c].run.stdout # <<>>

\* what the Duration Parser gives, by the format <integer><unit>?
SecondsOf(d) ==
    IF IsInteger(d) THEN PlaceSum(d, 1)
    ELSE IF Len(d) >= 2 /\ IsInteger(SubSeq(d, 1, Len(d) - 1)) /\ d[Len(d)] \in DOMAIN UnitFactor
         THEN PlaceSum(SubSeq(d, 1, Len(d) - 1), 1) * UnitFactor[d[Len(d)]]
         ELSE 1

Ceiling(a, b) == IF a % b = 0 THEN a \div b ELSE (a \div b) + 1

Given(o) == [count |-> o.count # 0, rate |-> o.rate # 0, duration |-> o.duration # <<>>]

\* the number a decimal rendering stands for, -1 if it is not one
ValueOf(arg) == IF IsInteger(arg) THEN PlaceSum(arg, 1) ELSE -1

\* C25: the value after -c is options.count when it is given, otherwise
\* ceil(rate * durationSeconds) when rate and duration are given, otherwise 10.
C25_VirtualUserCount ==
    probe.kind = "quick args" =>
        LET o == probe.options
            g == Given(o)
        IN /\ probe.args[3] = <<"-", "c">>
           /\ ValueOf(probe.args[4]) =
                 IF g.count THEN o.count
                 ELSE IF g.rate /\ g.duration THEN o.rate * SecondsOf(o.duration)
                      ELSE 10

C25_Witness ==
    /\ probe.kind = "quick args"
    /\ probe.options.count = 0
    /\ probe.options.rate = 3
    /\ probe.options.duration = <<"1", "m">>
    /\ probe.args[4] = <<"1", "8", "0">>

\* C26: the value after -n is ceil(rate * durationSeconds / vuCount) when rate
\* and duration are given, vuCount being the value after -c (not 0);
\* max(1, ceil(durationSeconds / 2)) when duration is given without rate; 30
\* in every other case.
C26_RequestsPerVirtualUser ==
    probe.kind = "quick args" =>
        LET o == probe.options
            g == Given(o)
            vuCount == ValueOf(probe.args[4])
            half == Ceiling(SecondsOf(o.duration), 2)
        IN /\ probe.args[5] = <<"-", "n">>
           /\ (g.rate /\ g.duration /\ vuCount > 0) =>
                 ValueOf(probe.args[6]) = Ceiling(o.rate * SecondsOf(o.duration), vuCount)
           /\ (g.duration /\ ~g.rate) =>
                 ValueOf(probe.args[6]) = IF half > 1 THEN half ELSE 1
           /\ ~g.duration => ValueOf(probe.args[6]) = 30

C26_Witness ==
    /\ probe.kind = "quick args"
    /\ probe.options.count = 4
    /\ probe.options.rate = 3
    /\ probe.options.duration = <<"5", "s">>
    /\ probe.args[6] = <<"4">>

\* the scheme of a URL: what stands before the first colon, in lower case
\* (a scheme is case-insensitive); a text with no colon has no scheme
UpperLetters == <<"A", "B", "C", "D", "E", "F", "G", "H", "I", "J", "K", "L", "M",
                  "N", "O", "P", "Q", "R", "S", "T", "U", "V", "W", "X", "Y", "Z">>
LowerLetters == <<"a", "b", "c", "d", "e", "f", "g", "h", "i", "j", "k", "l", "m",
                  "n", "o", "p", "q", "r", "s", "t", "u", "v", "w", "x", "y", "z">>
LowerCase(ch) ==
    IF \E i \in DOMAIN UpperLetters : UpperLetters[i] = ch
    THEN LowerLetters[CHOOSE i \in DOMAIN UpperLetters : UpperLetters[i] = ch]
    ELSE ch

RECURSIVE BeforeColon(_)
BeforeColon(url) ==
    IF url = <<>> \/ Head(url) = ":" THEN <<>>
    ELSE <<LowerCase(Head(url))>> \o BeforeColon(Tail(url))

Scheme(url) ==
    IF \E i \in DOMAIN url : url[i] = ":" THEN BeforeColon(url) ELSE <<>>

Occurrences(args, flag) == Cardinality({i \in DOMAIN args : args[i] = flag})

\* quick <target> -c <count> -n <perUser> -o <outputPath>, with one -c, one
\* -n and one -o in that order and the output path inside the work directory
QuickArgvHead(a, target) ==
    /\ Len(a) >= 8
    /\ a[1] = <<"q", "u", "i", "c", "k">>
    /\ a[2] = target
    /\ a[3] = <<"-", "c">> /\ a[5] = <<"-", "n">> /\ a[7] = <<"-", "o">>
    /\ Occurrences(a, <<"-", "c">>) = 1
    /\ Occurrences(a, <<"-", "n">>) = 1
    /\ Occurrences(a, <<"-", "o">>) = 1
    /\ IsWithin(a[8], config_workDir) /\ a[8] # config_workDir

\* -k closes the argv when `insecure` holds and is absent otherwise
QuickArgvTail(a, insecure) ==
    /\ Len(a) = IF insecure THEN 9 ELSE 8
    /\ insecure <=> Occurrences(a, <<"-", "k">>) = 1
    /\ insecure => a[9] = <<"-", "k">>

\* C27 as stated: the argv of a quick test is quick <target> -c <count>
\* -n <perUser> -o <outputPath> [-k], with one -c, one -n and one -o in that
\* order, the output path inside the work directory, and -k exactly when
\* the scheme of the target is https.  The code refutes it: HTTPS://h and
\* https:/h have the scheme https and get no -k.
C27_StatedShape ==
    probe.kind = "quick args" =>
        /\ QuickArgvHead(probe.args, probe.options.target)
        /\ QuickArgvTail(probe.args,
                         Scheme(probe.options.target) = <<"h", "t", "t", "p", "s">>)

\* the target begins with the eight characters https://, in lower case
HasHttpsPrefix(target) ==
    /\ Len(target) >= 8
    /\ SubSeq(target, 1, 8) = <<"h", "t", "t", "p", "s", ":", "/", "/">>

\* C27: the argv of a quick test is quick <target> -c <count> -n <perUser>
\* -o <outputPath> [-k], with one -c, one -n and one -o in that order, the
\* output path inside the work directory, and -k exactly when the target
\* begins with the literal lower-case text https://.
C27_QuickArgvShape ==
    probe.kind = "quick args" =>
        /\ QuickArgvHead(probe.args, probe.options.target)
        /\ QuickArgvTail(probe.args, HasHttpsPrefix(probe.options.target))

C27_Witness ==
    /\ probe.kind = "quick args"
    /\ probe.options.target = <<"h", "t", "t", "p", "s", ":", "/", "/", "h">>
    /\ Len(probe.args) = 9
    /\ probe.args[9] = <<"-", "k">>

\* the requests the input schema of quick_test accepts: rate and count at
\* least 1 when present, the duration of the form <integer><unit>?
AcceptedBySchema(o) ==
    o.duration # <<>> =>
        \/ IsInteger(o.duration)
        \/ /\ Len(o.duration) >= 2
           /\ IsInteger(SubSeq(o.duration, 1, Len(o.duration) - 1))
           /\ o.duration[Len(o.duration)] \in DOMAIN UnitFactor

\* C30: for a request the schema accepts, the values after -c and -n are
\* decimal renderings of positive integers.
C30_PositiveCounts ==
    (probe.kind = "quick args" /\ AcceptedBySchema(probe.options)) =>
        /\ ValueOf(probe.args[4]) > 0
        /\ ValueOf(probe.args[6]) > 0

\* C28: the promise of runCommand settles once: after the first of the
\* timeout, 'close' and 'error' has settled it, no later event changes its
\* state, value or error, and the result a finished call has returned stays.
C28_SettlesOnce ==
    [][\A c \in Calls :
          /\ Settled(c) => calls'[c].run.promise = calls[c].run.promise
          /\ calls[c].pc = "done" => calls'[c].output = calls[c].output]_vars

C28_Witness ==
    \E c \in Calls :
        /\ calls[c].run.errored
        /\ calls[c].run.child = "closed"
        /\ ~calls[c].run.killed
        /\ calls[c].run.promise.state = "rejected"
        /\ calls[c].run.promise.error = "spawn error"

\* C29: once 'close' or 'error' has been handled the timer is not armed:
\* from then on no SIGKILL is sent and the timer does not fire, and a
\* resolved promise stays resolved.
C29_TimerCancelled ==
    /\ [](\A c \in Calls :
             (calls[c].run.child = "closed" \/ calls[c].run.errored) =>
                 calls[c].run.timer # "armed")
    /\ [][\A c \in Calls :
             /\ (calls[c].run.child = "closed" \/ calls[c].run.errored) =>
                   /\ calls'[c].run.sigkill = calls[c].run.sigkill
                   /\ calls'[c].run.timer = calls[c].run.timer
                   /\ calls'[c].run.killed = calls[c].run.killed
             /\ calls[c].run.promise.state = "resolved" =>
                   /\ calls'[c].run.promise.state = "resolved"
                   /\ calls'[c].run.timer # "fired"]_vars

C29_Witness ==
    \E c \in Calls :
        /\ calls[c].run.errored
        /\ calls[c].run.child = "running"
        /\ calls[c].run.timer = "cleared"
        /\ calls[c].run.sigkill = 0
        /\ calls[c].pc = "done"

====
